---------------------------- MODULE Spec2Model ----------------------------
(***************************************************************************)
(* Model of scripts/restore_backup_from_s3.py: the listing loop of main,   *)
(* find_latest_zip and restore_from_zip, run against a bucket listing and  *)
(* a local file system.                                                    *)
(*                                                                         *)
(* Strings whose characters the code inspects (S3 key names: endswith,     *)
(* lexicographic sort) are sequences of one-character strings.  Archive    *)
(* entry names are a flag for a leading "/" plus the rest of the name,     *)
(* which is what os.path.join and ZipFile.extract look at.                 *)
(***************************************************************************)
EXTENDS Integers, Sequences, FiniteSets, TLC

VARIABLES
    listing,     \* what bucket_lister yields, in storage order
    fs,          \* the local file system: path -> content
    pc,          \* position of the script: idle, list, stage, open, extract
    n,           \* main: number of listed objects seen so far
    zip_files,   \* main: the objects whose name ends with ".zip"
    latest_zip,  \* main: what find_latest_zip returned
    zf,          \* restore_from_zip: entries of the opened ZipFile
    idx,         \* restore_from_zip: number of entries extracted so far
    outcome,     \* how the current (or last) run ended, or Running: the exception
                 \* (type, msg, diag) and where it was raised (at, left)
    runs,        \* number of runs started
    fs0,         \* history: fs when the current run started
    opened,      \* history: the content ZipFile() was given in the current run
    staged_in,   \* history: the run whose download wrote tmp.zip as it is now (0: none)
    prev         \* history: selection, outcome and fs at the end of the previous run

vars == <<listing, fs, pc, n, zip_files, latest_zip, zf, idx, outcome, runs,
          fs0, opened, staged_in, prev>>

---------------------------------------------------------------------------
(* Bounds *)

MaxObjects == 3
MaxTime == 3
MaxEntries == 2
MaxRuns == 2

---------------------------------------------------------------------------
(* Strings *)

\* code point of a character, as Python compares str
Ord(c) ==
    CASE c = "." -> 46
      [] c = "0" -> 48
      [] c = "1" -> 49
      [] c = "2" -> 50
      [] c = "i" -> 105
      [] c = "p" -> 112
      [] c = "t" -> 116
      [] c = "x" -> 120
      [] c = "z" -> 122

\* str.__lt__ / __le__: the first differing character decides, a proper prefix is less
RECURSIVE StrLe(_, _)
StrLe(a, b) ==
    IF a = <<>> THEN TRUE
    ELSE IF b = <<>> THEN FALSE
    ELSE IF Head(a) = Head(b) THEN StrLe(Tail(a), Tail(b))
    ELSE Ord(Head(a)) < Ord(Head(b))

\* str.endswith
EndsWith(s, suffix) ==
    /\ Len(s) >= Len(suffix)
    /\ SubSeq(s, Len(s) - Len(suffix) + 1, Len(s)) = suffix

DotZip == <<".", "z", "i", "p">>

\* "1.zip" < "10.zip" < "2.txt" < "2.zip" as Python orders them
K1 == <<"1", ".", "z", "i", "p">>
K10 == <<"1", "0", ".", "z", "i", "p">>
K2 == <<"2", ".", "z", "i", "p">>
KTxt == <<"2", ".", "t", "x", "t">>

KeyNames == {K1, K10, K2, KTxt}

---------------------------------------------------------------------------
(* File contents, paths, archives *)

Absent == [kind |-> "absent", bytes |-> 0, entries |-> <<>>]
Plain(b) == [kind |-> "plain", bytes |-> b, entries |-> <<>>]
Zip(es) == [kind |-> "zip", bytes |-> 0, entries |-> es]
Garbage == [kind |-> "garbage", bytes |-> 0, entries |-> <<>>]
\* a proper prefix of content c: what an interrupted write leaves
Truncated(c) == [kind |-> "truncated", bytes |-> c.bytes, entries |-> c.entries]

\* 1 is also what a file that was there before holds, 2 is not
Bytes == {1, 2}

EntryNames ==
    { [abs |-> FALSE, base |-> "a"],
      [abs |-> FALSE, base |-> "b"],
      [abs |-> FALSE, base |-> "tmp.zip"],
      [abs |-> TRUE, base |-> "a"] }

Entries == [name : EntryNames, bytes : Bytes]

SeqsUpTo(S, k) == UNION { [1..m -> S] : m \in 0..k }

Archives == { Zip(es) : es \in SeqsUpTo(Entries, MaxEntries) }

Paths ==
    { [dir |-> "dst", file |-> "a"],
      [dir |-> "dst", file |-> "b"],
      [dir |-> "dst", file |-> "tmp.zip"],
      [dir |-> "root", file |-> "a"] }

DestPaths == { p \in Paths : p.dir = "dst" }

\* os.path.join(dst_dir, name): an absolute name replaces dst_dir
Join(name) ==
    IF name.abs THEN [dir |-> "root", file |-> name.base]
    ELSE [dir |-> "dst", file |-> name.base]

\* an extract that writes to os.path.join(dst_dir, name)
ExtractTargetJoined(name) == Join(name)

\* where ZipFile.extract(name, dst_dir) writes: leading "/" is stripped
ExtractTarget(name) == [dir |-> "dst", file |-> name.base]

tmp_path == Join([abs |-> FALSE, base |-> "tmp.zip"])

exists(f, path) == f[path].kind # "absent"

delete_file(f, path) ==
    IF exists(f, path) THEN [f EXCEPT ![path] = Absent] ELSE f

\* a create_dir that empties the directory it is given
create_dir_fresh(f) ==
    [p \in DOMAIN f |-> IF p.dir = "dst" /\ p.file # "tmp.zip" THEN Absent ELSE f[p]]

\* create_dir(dst_dir): dst_dir is local_download_dir(), which exists
create_dir(f) == f

\* zf.extract(name, dst_dir) of entry e: the target is opened "wb" and written
extract(f, e) == [f EXCEPT ![ExtractTarget(e.name)] = Plain(e.bytes)]

\* the loop body with zf.extract in an else branch of the existence test
restore_entry_else(f, e) ==
    IF exists(f, Join(e.name)) THEN delete_file(f, Join(e.name)) ELSE extract(f, e)

\* the body of the extraction loop for entry e, when nothing fails
restore_entry(f, e) == extract(delete_file(f, Join(e.name)), e)

\* get_contents_to_filename(tmp_path): the file is opened "wb" and written whole
download(f, key) == [f EXCEPT ![tmp_path] = key.data]

NotOpened == [data |-> Absent, run |-> 0]

---------------------------------------------------------------------------
(* Objects and selection *)

NoObject == [name |-> <<>>, last_modified |-> 0, data |-> Absent]

Running == [type |-> "", msg |-> "", at |-> 0, left |-> "", diag |-> <<>>]
Success == [type |-> "ok", msg |-> "", at |-> 0, left |-> "", diag |-> <<>>]
Raise(type, msg, at, left, diag) ==
    [type |-> type, msg |-> msg, at |-> at, left |-> left, diag |-> diag]

KeyLe(key, a, b) ==
    IF key = "name" THEN StrLe(a.name, b.name)
    ELSE a.last_modified <= b.last_modified

\* sorted(s, key=...): stable, so x goes after every element whose key is <= its own
InsertSorted(key, t, x) ==
    LET p == Cardinality({ i \in 1..Len(t) : KeyLe(key, t[i], x) })
    IN SubSeq(t, 1, p) \o <<x>> \o SubSeq(t, p + 1, Len(t))

RECURSIVE sorted(_, _)
sorted(s, key) ==
    IF s = <<>> THEN <<>>
    ELSE InsertSorted(key, sorted(SubSeq(s, 1, Len(s) - 1), key), s[Len(s)])

\* s[0] where the code has s[-1]
FirstOf(s) == s[1]

\* s[-1]
LastOf(s) == s[Len(s)]

\* find_latest_zip with the assert left out
find_latest_zip_unchecked(zs) ==
    IF zs = <<>>
    THEN [ret |-> NoObject,
          exc |-> Raise("IndexError", "list index out of range", 0, "", <<>>)]
    ELSE [ret |-> LastOf(sorted(zs, "name")), exc |-> Running]

\* find_latest_zip with the emptiness reported by the same assert as a disagreement
find_latest_zip_one_error(zs) ==
    LET v1 == IF zs = <<>> THEN NoObject ELSE LastOf(sorted(zs, "name"))
        v2 == IF zs = <<>> THEN NoObject ELSE LastOf(sorted(zs, "last_modified"))
    IN IF zs # <<>> /\ v1 = v2
       THEN [ret |-> v1, exc |-> Running]
       ELSE [ret |-> NoObject,
             exc |-> Raise("AssertionError", "inconsistency in zip files",
                           0, "", <<v1.name, v2.name>>)]

find_latest_zip(zs) ==
    IF zs = <<>>
    THEN [ret |-> NoObject,
          exc |-> Raise("IndexError", "list index out of range", 0, "", <<>>)]
    ELSE LET v1 == LastOf(sorted(zs, "name"))
             v2 == LastOf(sorted(zs, "last_modified"))
         IN IF v1 = v2
            THEN [ret |-> v1, exc |-> Running]
            ELSE [ret |-> NoObject,
                  exc |-> Raise("AssertionError", "inconsistency in zip files",
                                0, "", <<v1.name, v2.name>>)]

---------------------------------------------------------------------------
(* Initial states *)

TypeOK ==
    /\ pc \in {"idle", "list", "stage", "open", "extract"}
    /\ n \in 0..Len(listing)
    /\ idx \in 0..Len(zf)
    /\ runs \in 0..MaxRuns

InitCommon ==
    /\ pc = "idle"
    /\ n = 0
    /\ zip_files = <<>>
    /\ latest_zip = NoObject
    /\ zf = <<>>
    /\ idx = 0
    /\ outcome = Running
    /\ runs = 0
    /\ fs0 = fs
    /\ opened = NotOpened
    /\ staged_in = 0
    /\ prev = [valid |-> FALSE, sel |-> NoObject, outcome |-> Running, fs |-> fs]

OldFile == {Absent, Plain(1)}

\* an older backup; also what an earlier run that failed left in tmp.zip
StaleZip == Zip(<<[name |-> [abs |-> FALSE, base |-> "b"], bytes |-> 1]>>)

\* the destination before the first run: a and b there or not, a file /a outside it,
\* and tmp.zip left over or not
InitFs ==
    { f \in [Paths -> OldFile \cup {StaleZip}] :
        /\ f[tmp_path] \in {Absent, StaleZip}
        /\ f[[dir |-> "root", file |-> "a"]] = Plain(1)
        /\ \A p \in DestPaths \ {tmp_path} : f[p] \in OldFile }

Obj(name, t, data) == [name |-> name, last_modified |-> t, data |-> data]

\* restore runs: few listings, every archive as the content of the latest object
\* (after an older backup), every destination
Init ==
    /\ listing \in
          { <<>>,
            <<Obj(K1, 1, StaleZip), Obj(KTxt, 2, Garbage)>>,
            <<Obj(K1, 2, StaleZip), Obj(K2, 1, StaleZip)>>,
            <<Obj(K1, 1, Garbage)>> }
          \cup { <<Obj(K1, 1, StaleZip), Obj(K2, 2, d)>> : d \in Archives }
    /\ fs \in InitFs
    /\ InitCommon

SelectArchive == Zip(<<[name |-> [abs |-> FALSE, base |-> "a"], bytes |-> 2]>>)

\* selection: every listing of up to MaxObjects objects with distinct keys
Listings ==
    { s \in SeqsUpTo([name : KeyNames, last_modified : 1..MaxTime, data : {SelectArchive}],
                     MaxObjects) :
        \A i, j \in 1..Len(s) : i # j => s[i].name # s[j].name }

InitSelect ==
    /\ listing \in Listings
    /\ fs = [p \in Paths |-> IF p.file = "a" THEN Plain(1) ELSE Absent]
    /\ InitCommon

---------------------------------------------------------------------------
(* Actions *)

Fail(exc) ==
    /\ pc' = "idle"
    /\ outcome' = exc

\* python restore_backup_from_s3.py
StartRun ==
    /\ pc = "idle"
    /\ runs < MaxRuns
    /\ runs' = runs + 1
    /\ pc' = "list"
    /\ n' = 0
    /\ zip_files' = <<>>
    /\ latest_zip' = NoObject
    /\ zf' = <<>>
    /\ idx' = 0
    /\ outcome' = Running
    /\ fs0' = fs
    /\ opened' = NotOpened
    /\ prev' = IF runs > 0
               THEN [valid |-> TRUE, sel |-> latest_zip, outcome |-> outcome, fs |-> fs]
               ELSE prev
    /\ UNCHANGED <<listing, fs, staged_in>>

\* the loop with "continue" in place of the assert
MainLoopSkip ==
    /\ pc = "list"
    /\ n < Len(listing)
    /\ LET f == listing[n + 1]
       IN zip_files' = IF EndsWith(f.name, DotZip) THEN Append(zip_files, f) ELSE zip_files
    /\ n' = n + 1
    /\ UNCHANGED <<listing, fs, pc, outcome, latest_zip, zf, idx, runs, fs0, opened,
                   staged_in, prev>>

\* one iteration of "for f in files"
MainLoop ==
    /\ pc = "list"
    /\ n < Len(listing)
    /\ LET f == listing[n + 1]
       IN IF EndsWith(f.name, DotZip)
          THEN /\ zip_files' = Append(zip_files, f)
               /\ UNCHANGED <<pc, outcome>>
          ELSE /\ Fail(Raise("AssertionError", "unrecognized files in s3", n + 1, "",
                             <<f.name>>))
               /\ UNCHANGED zip_files
    /\ n' = n + 1
    /\ UNCHANGED <<listing, fs, latest_zip, zf, idx, runs, fs0, opened, staged_in, prev>>

\* the listing request fails (network, credentials)
ListFail ==
    /\ pc = "list"
    /\ Fail(Raise("S3ResponseError", "listing failed", n, "", <<>>))
    /\ UNCHANGED <<listing, fs, n, zip_files, latest_zip, zf, idx, runs, fs0, opened,
                   staged_in, prev>>

\* the loop is over: latest_zip = find_latest_zip(zip_files)
Select ==
    /\ pc = "list"
    /\ n = Len(listing)
    /\ LET r == find_latest_zip(zip_files)
       IN IF r.exc = Running
          THEN /\ latest_zip' = r.ret
               /\ pc' = "stage"
               /\ UNCHANGED outcome
          ELSE /\ Fail(r.exc)
               /\ UNCHANGED latest_zip
    /\ UNCHANGED <<listing, fs, n, zip_files, zf, idx, runs, fs0, opened, staged_in, prev>>

\* staging that keeps a tmp.zip it finds instead of replacing it
StageKeepStale ==
    /\ pc = "stage"
    /\ IF exists(fs, tmp_path)
       THEN /\ pc' = "open"
            /\ UNCHANGED <<fs, staged_in, outcome>>
       ELSE \/ /\ fs' = download(fs, latest_zip)
               /\ staged_in' = runs
               /\ pc' = "open"
               /\ UNCHANGED outcome
            \/ \E left \in {Absent, Truncated(latest_zip.data)} :
                  /\ fs' = [fs EXCEPT ![tmp_path] = left]
                  /\ staged_in' = 0
                  /\ Fail(Raise("S3ResponseError", "download failed", 0, left.kind, <<>>))
    /\ UNCHANGED <<listing, n, zip_files, latest_zip, zf, idx, runs, fs0, opened, prev>>

\* delete_file(tmp_path); s3_key.get_contents_to_filename(tmp_path)
Stage ==
    /\ pc = "stage"
    /\ \/ /\ exists(fs, tmp_path)
          /\ Fail(Raise("OSError", "remove", 0, "before download", <<>>))
          /\ UNCHANGED <<fs, staged_in>>
       \/ /\ fs' = download(delete_file(fs, tmp_path), latest_zip)
          /\ staged_in' = runs
          /\ pc' = "open"
          /\ UNCHANGED outcome
       \/ \E left \in {Absent, Truncated(latest_zip.data)} :
             /\ fs' = [delete_file(fs, tmp_path) EXCEPT ![tmp_path] = left]
             /\ staged_in' = 0
             /\ Fail(Raise("S3ResponseError", "download failed", 0, left.kind, <<>>))
    /\ UNCHANGED <<listing, n, zip_files, latest_zip, zf, idx, runs, fs0, opened, prev>>

\* zf = zipfile.ZipFile(tmp_path, "r"); create_dir(dst_dir)
OpenZip ==
    /\ pc = "open"
    /\ IF fs[tmp_path].kind = "zip"
       THEN /\ zf' = fs[tmp_path].entries
            /\ opened' = [data |-> fs[tmp_path], run |-> staged_in]
            /\ fs' = create_dir(fs)
            /\ pc' = "extract"
            /\ UNCHANGED outcome
       ELSE /\ Fail(Raise("BadZipfile", "File is not a zip file", 0, "", <<>>))
            /\ UNCHANGED <<zf, opened, fs>>
    /\ UNCHANGED <<listing, n, zip_files, latest_zip, idx, runs, fs0, staged_in, prev>>

\* one iteration of "for name in zf.namelist()"
ExtractEntry ==
    /\ pc = "extract"
    /\ idx < Len(zf)
    /\ LET e == zf[idx + 1]
           dst_path == Join(e.name)
           deleted == delete_file(fs, dst_path)
       IN \/ /\ exists(fs, dst_path)
             /\ Fail(Raise("OSError", "remove", idx + 1, "", <<>>))
             /\ UNCHANGED <<fs, idx>>
          \/ /\ fs' = restore_entry(fs, e)
             /\ idx' = idx + 1
             /\ UNCHANGED <<pc, outcome>>
          \/ /\ fs' = deleted
             /\ Fail(Raise("IOError", "extract", idx + 1, "nothing", <<>>))
             /\ UNCHANGED idx
          \/ /\ fs' = [deleted EXCEPT ![ExtractTarget(e.name)] = Truncated(Plain(e.bytes))]
             /\ Fail(Raise("IOError", "extract", idx + 1, "truncated", <<>>))
             /\ UNCHANGED idx
    /\ staged_in' = IF fs'[tmp_path] = fs[tmp_path] THEN staged_in ELSE 0
    /\ UNCHANGED <<listing, n, zip_files, latest_zip, zf, runs, fs0, opened, prev>>

\* the end of restore_from_zip without its delete_file(tmp_path)
CleanupKeepsStaging ==
    /\ pc = "extract"
    /\ idx = Len(zf)
    /\ Fail(Success)
    /\ UNCHANGED <<listing, fs, n, zip_files, latest_zip, zf, idx, runs, fs0, opened,
                   staged_in, prev>>

\* the loop is over: delete_file(tmp_path)
Cleanup ==
    /\ pc = "extract"
    /\ idx = Len(zf)
    /\ \/ /\ exists(fs, tmp_path)
          /\ Fail(Raise("OSError", "remove", 0, "after extraction", <<>>))
          /\ UNCHANGED <<fs, staged_in>>
       \/ /\ fs' = delete_file(fs, tmp_path)
          /\ staged_in' = 0
          /\ Fail(Success)
    /\ UNCHANGED <<listing, n, zip_files, latest_zip, zf, idx, runs, fs0, opened, prev>>

---------------------------------------------------------------------------
(* Next-state relation *)

Next ==
    \/ StartRun
    \/ MainLoop
    \/ ListFail
    \/ Select
    \/ Stage
    \/ OpenZip
    \/ ExtractEntry
    \/ Cleanup

Spec == Init /\ [][Next]_vars

SpecSelect == InitSelect /\ [][Next]_vars

---------------------------------------------------------------------------
(* Properties *)

Range(s) == { s[i] : i \in 1..Len(s) }

\* a run has been started and has ended
RunEnded == pc = "idle" /\ runs > 0

\* find_latest_zip has been called in the current run
SelectCalled ==
    /\ runs > 0
    /\ pc # "list"
    /\ outcome.msg \notin {"listing failed", "unrecognized files in s3"}

\* nothing was selected, staged, opened or written in the current run
NothingDone ==
    /\ pc = "idle"
    /\ latest_zip = NoObject
    /\ opened = NotOpened
    /\ fs = fs0

IsArchiveName(name) == name \in {K1, K10, K2}

NameMaxima(zs) == { o \in Range(zs) : \A q \in Range(zs) : StrLe(q.name, o.name) }
TimeMaxima(zs) ==
    { o \in Range(zs) : \A q \in Range(zs) : q.last_modified <= o.last_modified }

\* entries of the archive that was selected in the current run
SelectedEntries ==
    IF latest_zip.data.kind = "zip" THEN latest_zip.data.entries ELSE <<>>

\* the file of the destination directory that holds an entry after extraction
DestFile(e) == [dir |-> "dst", file |-> e.name.base]

\* C2: when no object is maximal both by name and by last-modified time, selection
\* fails with the inconsistency assertion naming the name-maximal and a time-maximal
\* object, returns nothing, and the run ends with nothing staged, opened or written.
C2_InconsistentFails ==
    (/\ SelectCalled
     /\ zip_files # <<>>
     /\ NameMaxima(zip_files) \cap TimeMaxima(zip_files) = {})
    => /\ NothingDone
       /\ outcome.type = "AssertionError"
       /\ outcome.msg = "inconsistency in zip files"
       /\ Len(outcome.diag) = 2
       /\ outcome.diag[1] \in { o.name : o \in NameMaxima(zip_files) }
       /\ outcome.diag[2] \in { o.name : o \in TimeMaxima(zip_files) }

C2_Witness ==
    /\ RunEnded
    /\ Len(zip_files) >= 2
    /\ NameMaxima(zip_files) \cap TimeMaxima(zip_files) = {}
    /\ outcome.msg = "inconsistency in zip files"

\* C3: when one object is strictly greater than every other candidate both by name
\* and by last-modified time, whatever the listing order, selection returns that
\* object and raises nothing; a single candidate is always selected.
C3_UniqueMaxSelected ==
    SelectCalled =>
        \A o \in Range(zip_files) :
            (\A q \in Range(zip_files) \ {o} :
                /\ ~StrLe(o.name, q.name)
                /\ q.last_modified < o.last_modified)
            => /\ latest_zip = o
               /\ outcome.type \notin {"IndexError", "AssertionError"}

C3_Witness ==
    /\ SelectCalled
    /\ Len(zip_files) >= 2
    /\ latest_zip = zip_files[1]
    /\ \A q \in Range(zip_files) \ {latest_zip} :
          /\ ~StrLe(latest_zip.name, q.name)
          /\ q.last_modified < latest_zip.last_modified

\* C4: with no candidate, selection fails with IndexError, which no other failure
\* of a run raises, and the run ends with nothing selected, staged, opened or written.
C4_EmptyFails ==
    /\ (SelectCalled /\ zip_files = <<>>) => (NothingDone /\ outcome.type = "IndexError")
    /\ outcome.type = "IndexError" => (SelectCalled /\ zip_files = <<>> /\ listing = <<>>)

C4_Witness ==
    /\ RunEnded
    /\ listing = <<>>
    /\ outcome.type = "IndexError"

\* C5: as soon as the listing has yielded an object whose key is not an archive name,
\* at any position, the run has failed with the unrecognized-object assertion naming
\* that key, and nothing is selected, staged, opened or written.
C5_UnrecognizedFails ==
    \A i \in 1..n :
        (runs > 0 /\ ~IsArchiveName(listing[i].name))
        => /\ NothingDone
           /\ outcome.type = "AssertionError"
           /\ outcome.msg = "unrecognized files in s3"
           /\ outcome.diag = <<listing[i].name>>

C5_Witness ==
    /\ RunEnded
    /\ n >= 2
    /\ zip_files # <<>>
    /\ ~IsArchiveName(listing[n].name)
    /\ outcome.msg = "unrecognized files in s3"


---------------------------------------------------------------------------
(* Properties of restore_from_zip *)

ExtractFailedAt(k) ==
    /\ RunEnded
    /\ k \in 1..Len(zf)
    /\ outcome.at = k
    /\ outcome.msg \in {"remove", "extract"}

\* entries i..j have DestFile(e) as their file
SamePathIn(e, i, j) == \E m \in i..j : DestFile(zf[m]) = DestFile(e)

\* C6 as stated: after a failure on entry k, the files of entries 1..k-1 hold the
\* archive's contents (the last of duplicate entries) and the files of entries k..end
\* are as they were when the run started.
C6_PartialFailureAsStated ==
    \A k \in 1..Len(zf) :
        ExtractFailedAt(k) =>
            /\ \A j \in 1..(k - 1) :
                  ~SamePathIn(zf[j], j + 1, k - 1) => fs[DestFile(zf[j])] = Plain(zf[j].bytes)
            /\ \A j \in k..Len(zf) : fs[DestFile(zf[j])] = fs0[DestFile(zf[j])]

\* C6 amended: after a failure on entry k, the files of entries 1..k-1 whose path no
\* later entry up to k shares hold the archive's contents, and the files of entries
\* after k, other than tmp.zip and the paths of entries 1..k, are as they were when
\* the run started; nothing is said of the file of entry k itself.
C6_PartialFailure ==
    \A k \in 1..Len(zf) :
        ExtractFailedAt(k) =>
            /\ \A j \in 1..(k - 1) :
                  ~SamePathIn(zf[j], j + 1, k) => fs[DestFile(zf[j])] = Plain(zf[j].bytes)
            /\ \A j \in (k + 1)..Len(zf) :
                  (~SamePathIn(zf[j], 1, k) /\ DestFile(zf[j]) # tmp_path)
                  => fs[DestFile(zf[j])] = fs0[DestFile(zf[j])]

C6_Witness ==
    /\ ExtractFailedAt(2)
    /\ Len(zf) >= 2
    /\ DestFile(zf[1]) # DestFile(zf[2])
    /\ exists(fs0, DestFile(zf[2]))
    /\ fs[DestFile(zf[1])] # fs0[DestFile(zf[1])]

\* C7: a file of the destination directory whose relative path is not the name of an
\* entry of the selected archive is unchanged when the run has ended, in success or
\* in failure.
C7_ExtrasKeptAsStated ==
    RunEnded =>
        \A p \in DestPaths :
            (/\ exists(fs0, p)
             /\ \A i \in 1..Len(SelectedEntries) :
                   SelectedEntries[i].name # [abs |-> FALSE, base |-> p.file])
            => fs[p] = fs0[p]

\* What the code keeps of C7: a file of the destination directory other than tmp.zip,
\* whose relative path is not the name of an entry with its leading "/" removed, is
\* unchanged when the run has ended, in success or in failure.
C7_ExtrasKept ==
    RunEnded =>
        \A p \in DestPaths \ {tmp_path} :
            (/\ exists(fs0, p)
             /\ \A i \in 1..Len(SelectedEntries) : DestFile(SelectedEntries[i]) # p)
            => fs[p] = fs0[p]

C7_Witness ==
    /\ RunEnded
    /\ outcome = Success
    /\ zf # <<>>
    /\ fs # fs0
    /\ \E p \in DestPaths \ {tmp_path} :
          /\ exists(fs0, p)
          /\ \A i \in 1..Len(zf) : DestFile(zf[i]) # p
          /\ fs[p] = fs0[p]

\* es is an archive of a directory tree: one entry per file, named by its relative path
IsTreeArchive(es) ==
    /\ \A i \in 1..Len(es) : ~es[i].name.abs
    /\ \A i, j \in 1..Len(es) : es[i].name = es[j].name => i = j

\* C8: a successful restore of the archive of a tree into an empty destination leaves
\* the destination holding exactly the files of the tree, with their contents.
C8_RoundTrip ==
    (/\ RunEnded
     /\ outcome = Success
     /\ IsTreeArchive(zf)
     /\ \A p \in DestPaths : ~exists(fs0, p))
    => \A p \in DestPaths :
          /\ \A i \in 1..Len(zf) : DestFile(zf[i]) = p => fs[p] = Plain(zf[i].bytes)
          /\ (\A i \in 1..Len(zf) : DestFile(zf[i]) # p) => ~exists(fs, p)

\* C9: a run that selects the same object as the run before it and ends the same way
\* (in success, or in the same failure at the same place) leaves the files that the
\* run before it left.
C9_Idempotent ==
    (/\ RunEnded
     /\ prev.valid
     /\ latest_zip # NoObject
     /\ prev.sel = latest_zip
     /\ prev.outcome = outcome)
    => fs = prev.fs

C9_Witness ==
    /\ RunEnded
    /\ prev.valid
    /\ prev.sel = latest_zip
    /\ prev.outcome = Success
    /\ outcome = Success
    /\ Len(zf) >= 2

\* C10: what a run opens as an archive is the whole content of the object selected in
\* that run, written by that run's download; when the download fails, nothing is
\* opened and no file other than tmp.zip changes.
C10_FreshStaging ==
    /\ opened # NotOpened =>
          /\ latest_zip # NoObject
          /\ opened.data = latest_zip.data
          /\ opened.run = runs
    /\ outcome.msg = "download failed" =>
          /\ opened = NotOpened
          /\ \A p \in Paths \ {tmp_path} : fs[p] = fs0[p]

C10_Witness ==
    /\ opened # NotOpened
    /\ fs0[tmp_path].kind = "zip"
    /\ fs0[tmp_path] # opened.data

===========================================================================
